---- MODULE Spec2Model ----
(***************************************************************************)
(* Model of the text-scanner prototypes (React components CameraCapture).  *)
(*                                                                         *)
(* Three of the components of the repository run text recognition:         *)
(*   "ocr"    src/src/App.tsx 1-135: loading / ocrText / error state,      *)
(*            preprocessImage (luma, contrast curve, threshold), runOCR    *)
(*   "plain"  src/src/App.tsx 136-374: image / extractedText /             *)
(*            isProcessing / progress, extractText on the raw capture      *)
(*   "worker" src/src/components/CameraCapture.tsx 1-347: the same state,  *)
(*            preprocessImage (channel average, threshold), extractText    *)
(*            through a Tesseract worker                                   *)
(*                                                                         *)
(* Spec      the components as state machines, from the moment the camera  *)
(*           plays: one action per handler or promise continuation.        *)
(* CamSpec   the components from createRoot(...).render on: the effect     *)
(*           that starts and stops the camera, the getUserMedia calls and  *)
(*           their streams, and the handlers of Spec on the frames the     *)
(*           video element has.  It adds the capture-only component        *)
(*           "capture" (src/unnamed/part_000: image / error state).        *)
(* FairSpec  Spec with the promises of the recognizer settling.            *)
(* NormSpec  the per-pixel transform as a function of bitmap, contrast and *)
(*           threshold.  The code fixes contrast = 1.5 and threshold = 128 *)
(*           as literals; the operators below take them as parameters so   *)
(*           that the formula of the code can be evaluated at every        *)
(*           configuration its contract quantifies over.                   *)
(* ParSpec   the loop body applied to the pixels of a bitmap in any order. *)
(*                                                                         *)
(* Arithmetic.  The code computes in IEEE doubles.  gray and enhanced are  *)
(* modelled exactly, as rationals: gray in thousandths, contrast in        *)
(* tenths, and the one place where the rounding of the doubles decides the *)
(* comparison (a luma of exactly 128 under a negative factor) is modelled  *)
(* by GrayRoundsBelow.  Products are split so that no intermediate value   *)
(* leaves the range of 32-bit integers.                                    *)
(***************************************************************************)
EXTENDS Integers, Sequences, FiniteSets, TLC

VARIABLES
    \* ---- the mounted component (Spec) ----
    variant,        \* which component is mounted
    image,          \* useState image: Null or the captured data URL
    text,           \* useState extractedText / ocrText
    isProcessing,   \* useState isProcessing / loading
    progress,       \* useState progress
    error,          \* useState error ("ocr" only)
    canvas,         \* the off-screen canvas: [width, height, data]
    pc,             \* the await the extraction is suspended at, or "idle"
    result,         \* result.data.text of the extraction (<<>> until it resolves)
    worker,         \* the Tesseract worker of the running extraction
    outcome,        \* how the try block of the last extraction ended
    inflight,       \* number of extractions started and not completed
    \* ---- the camera of the component (CamSpec) ----
    mounted,        \* the effect of the component is active
    videoRef,       \* videoRef.current is the video element (not null)
    srcObject,      \* video.srcObject: 0 (null) or the number of a stream
    gum,            \* the getUserMedia calls made, in order
    \* ---- one normalize call and its repetition (NormSpec) ----
    nKind,          \* "luma" (App.tsx) or "avg" (CameraCapture.tsx)
    nContrast,      \* contrast, in tenths
    nThreshold,     \* threshold
    nWidth, nHeight,
    nSrc,           \* the bitmap as passed in (flat RGBA array)
    nData,          \* the bitmap after the calls made so far
    nFirst,         \* the bitmap after the first call
    nCalls,         \* number of calls made
    nStatus,        \* "ready", "done" or "threw"
    wData,          \* the same bitmap processed pixel by pixel in any order
    wPending        \* pixels (start indices) not processed yet

progVars == <<variant, image, text, isProcessing, progress, error, canvas,
              pc, result, worker, outcome, inflight>>
camVars == <<mounted, videoRef, srcObject, gum>>
normVars == <<nKind, nContrast, nThreshold, nWidth, nHeight, nSrc, nData,
              nFirst, nCalls, nStatus, wData, wPending>>
vars == <<progVars, camVars, normVars>>

----------------------------------------------------------------------------
(* Bounds *)

\* A bitmap has at most MaxPixels pixels (width * height <= MaxPixels).
MaxPixels == 2

\* Recognized texts have at most MaxText characters.
MaxText == 2

\* The transform is called at most MaxCalls times on one bitmap.
MaxCalls == 2

----------------------------------------------------------------------------
(* Program constants *)

\* const contrast = 1.5, in tenths
Contrast10 == 15

\* enhanced > 128 ; const threshold = 128
Threshold == 128

Null == "null"

----------------------------------------------------------------------------
(* Input domains *)

\* RGBA pixels.  Opaque: black, white, the two pixels of the worked example
\* (200 and 50), the mid grey whose luma is 128 exactly and whose double luma
\* is one ulp below, one step above it, a colour whose double luma is 128
\* exactly (1,189,147), and two colours on which luma and channel average
\* fall on different sides of 128.  Two more pixels are not opaque.
Pixels ==
    { <<0, 0, 0, 255>>, <<255, 255, 255, 255>>, <<200, 200, 200, 255>>,
      <<50, 50, 50, 255>>, <<128, 128, 128, 255>>, <<129, 128, 128, 255>>,
      <<1, 189, 147, 255>>, <<0, 255, 0, 255>>, <<255, 0, 255, 255>>,
      <<200, 200, 200, 0>>, <<50, 50, 50, 128>> }

\* the pixels of the camera frames of Spec
FramePixels ==
    { <<0, 0, 0, 255>>, <<255, 255, 255, 255>>, <<200, 200, 200, 255>>,
      <<0, 255, 0, 255>> }

\* characters of a recognized text: a letter and a blank
Chars == {"a", " "}

\* m.progress of the logger messages, in thousandths
ProgressReports == {0, 4, 5, 500, 995, 1000}

\* contrast in tenths: 0, 0.1, the code's 1.5, 258.9, 259.0 (the divisor of
\* factor is 0) and 300.0
Contrasts == {0, 1, 15, 2589, 2590, 3000}

Thresholds == {0, 1, 128, 254, 255, 300}

\* width and height of a bitmap of at most MaxPixels pixels (either may be 0)
Shapes ==
    { s \in (0 .. MaxPixels) \X (0 .. MaxPixels) : s[1] * s[2] <= MaxPixels }

\* the flat RGBA array (ImageData.data) of the pixels f[1], ..., f[n]
flat(f, n) ==
    [k \in 1 .. 4 * n |-> f[((k - 1) \div 4) + 1][((k - 1) % 4) + 1]]

\* the flat arrays of n pixels drawn from ps
Bitmaps(ps, n) == { flat(f, n) : f \in [1 .. n -> ps] }

\* start indices of the pixels of a flat array
pixelStarts(data) == { 4 * k + 1 : k \in 0 .. (Len(data) \div 4) - 1 }

----------------------------------------------------------------------------
(* preprocessImage: the per-pixel transform *)

\* (variant for comparison) the weight of blue mistyped as 0.014
gray1000LowBlue(r, g, b) == 299 * r + 587 * g + 14 * b

\* 0.299 * data[i] + 0.587 * data[i + 1] + 0.114 * data[i + 2], in thousandths
gray1000(r, g, b) == 299 * r + 587 * g + 114 * b

\* (variant for comparison) contrast - 255 in place of contrast + 255
factorNumMinus(c10) == 259 * (c10 - 2550)

\* factor = (259 * (contrast + 255)) / (255 * (259 - contrast)) as the
\* fraction factorNum / factorDen (both scaled by the tenths of contrast)
factorNum(c10) == 259 * (c10 + 2550)
factorDen(c10) == 255 * (2590 - c10)

\* The double sum 0.299 * r + 0.587 * g + 0.114 * b differs from the exact
\* luma by a rounding error far below 1/1000, so it decides a comparison only
\* where the exact luma is 128.  Of the 111 colours with luma exactly 128
\* these 46 evaluate to 127.99999999999999, one ulp below 128; the other 65
\* evaluate to 128 exactly; none evaluates above.
GrayRoundsBelow ==
    { <<8, 200, 72>>, <<12, 190, 113>>, <<19, 201, 38>>, <<23, 191, 79>>,
      <<24, 160, 236>>, <<34, 192, 45>>, <<38, 182, 86>>, <<42, 172, 127>>,
      <<49, 183, 52>>, <<53, 173, 93>>, <<57, 163, 134>>, <<64, 174, 59>>,
      <<72, 154, 141>>, <<75, 175, 25>>, <<79, 165, 66>>, <<87, 145, 148>>,
      <<90, 166, 32>>, <<94, 156, 73>>, <<98, 146, 114>>, <<102, 136, 155>>,
      <<105, 157, 39>>, <<113, 137, 121>>, <<116, 158, 5>>, <<117, 127, 162>>,
      <<120, 148, 46>>, <<128, 128, 128>>, <<131, 149, 12>>, <<132, 118, 169>>,
      <<135, 139, 53>>, <<143, 119, 135>>, <<146, 140, 19>>, <<154, 120, 101>>,
      <<158, 110, 142>>, <<161, 131, 26>>, <<169, 111, 108>>, <<176, 122, 33>>,
      <<177, 91, 190>>, <<184, 102, 115>>, <<195, 103, 81>>, <<199, 93, 122>>,
      <<202, 114, 6>>, <<210, 94, 88>>, <<225, 85, 95>>, <<240, 76, 102>>,
      <<251, 77, 68>>, <<255, 67, 109>> }

\* n * x as hi * 1000 + lo with 0 <= lo < 1000 (x is split in thousands so
\* that no product leaves the 32-bit range)
mulHi(n, x) == n * (x \div 1000) + (n * (x % 1000)) \div 1000
mulLo(n, x) == (n * (x % 1000)) % 1000

\* enhanced > t, where enhanced = factor * (gray - 128) + 128, for the gray
\* of exact value g1000 / 1000 (below: its double is one ulp under 128).
\* With factor = num / den and gray - 128 = x / 1000 this is
\*   num * x > (t - 128) * den * 1000   when den > 0
\*   num * x < (t - 128) * den * 1000   when den < 0
\* and a gray one ulp under 128 is lifted above 128 by a negative factor.
\* When den = 0 the division of the code yields +Infinity (num > 0), so
\* enhanced is +Infinity, -Infinity or NaN as gray is above, below or equal
\* to 128, and the comparison is true only for +Infinity.
enhancedAbove(g1000, below, c10, t) ==
    LET x   == g1000 - 128000
        num == factorNum(c10)
        den == factorDen(c10)
        rhs == (t - 128) * den
    IN  IF den > 0 THEN \/ mulHi(num, x) > rhs
                        \/ mulHi(num, x) = rhs /\ mulLo(num, x) > 0
        ELSE IF den < 0 THEN \/ mulHi(num, x) < rhs
                             \/ x = 0 /\ below /\ t = 128 /\ num > 0
        ELSE IF num > 0 THEN x > 0
        ELSE IF num < 0 THEN x < 0
        ELSE FALSE

\* (variant for comparison) enhanced >= 128 at the mid grey
lumaValueInclusive(r, g, b, c10, t) ==
    IF \/ enhancedAbove(gray1000(r, g, b), <<r, g, b>> \in GrayRoundsBelow,
                        c10, t)
       \/ gray1000(r, g, b) = 128000 /\ t = 128
    THEN 255 ELSE 0

\* (variant for comparison) the two output levels exchanged
lumaValueInverted(r, g, b, c10, t) ==
    IF enhancedAbove(gray1000(r, g, b), <<r, g, b>> \in GrayRoundsBelow, c10, t)
    THEN 0 ELSE 255

\* App.tsx: const threshold = enhanced > 128 ? 255 : 0
lumaValue(r, g, b, c10, t) ==
    IF enhancedAbove(gray1000(r, g, b), <<r, g, b>> \in GrayRoundsBelow, c10, t)
    THEN 255 ELSE 0

\* CameraCapture.tsx: avg = (r + g + b) / 3 ; value = avg > threshold ? 255 : 0
avgValue(r, g, b, t) ==
    IF r + g + b > 3 * t THEN 255 ELSE 0

\* (variant for comparison) the green of the pixel to the left is read
pixelValueLeft(kind, data, i, c10, t) ==
    LET j == IF i > 1 THEN i - 3 ELSE i + 1
    IN  IF kind = "luma"
        THEN lumaValue(data[i], data[j], data[i + 2], c10, t)
        ELSE avgValue(data[i], data[j], data[i + 2], t)

\* the value the loop body computes for the pixel at index i of data
\* (indices are 1-based here: data[1] is the code's data[0])
pixelValue(kind, data, i, c10, t) ==
    IF kind = "luma"
    THEN lumaValue(data[i], data[i + 1], data[i + 2], c10, t)
    ELSE avgValue(data[i], data[i + 1], data[i + 2], t)

\* (variant for comparison) the blue entry is not written
pixelStepNoBlue(kind, data, i, c10, t) ==
    LET v == pixelValue(kind, data, i, c10, t)
    IN  [data EXCEPT ![i] = v, ![i + 1] = v]

\* (variant for comparison) the alpha entry is written too
pixelStepOpaque(kind, data, i, c10, t) ==
    LET v == pixelValue(kind, data, i, c10, t)
    IN  [data EXCEPT ![i] = v, ![i + 1] = v, ![i + 2] = v, ![i + 3] = 255]

\* the loop body: data[i] = data[i + 1] = data[i + 2] = value
pixelStep(kind, data, i, c10, t) ==
    LET v == pixelValue(kind, data, i, c10, t)
    IN  [data EXCEPT ![i] = v, ![i + 1] = v, ![i + 2] = v]

\* for (let i = 0; i < data.length; i += 4) { ... }, from index i on
RECURSIVE pixelLoop(_, _, _, _, _)
pixelLoop(kind, data, i, c10, t) ==
    IF i > Len(data) THEN data
    ELSE pixelLoop(kind, pixelStep(kind, data, i, c10, t), i + 4, c10, t)

\* the loop over the whole ImageData
normalize(kind, data, c10, t) == pixelLoop(kind, data, 1, c10, t)

\* ctx.getImageData(0, 0, canvas.width, canvas.height) throws IndexSizeError
\* when the width or the height is 0: preprocessImage is left before the loop
getImageDataThrows(w, h) == w = 0 \/ h = 0

\* the transform of each component, with the constants of the code
kindOf(v) == IF v = "ocr" THEN "luma" ELSE "avg"
preprocessImage(v, data) == normalize(kindOf(v), data, Contrast10, Threshold)

----------------------------------------------------------------------------
(* The component before any click *)

ProgIdle ==
    /\ image = Null
    /\ text = <<>>
    /\ isProcessing = FALSE
    /\ progress = 0
    /\ error = Null
    /\ canvas = [width |-> 0, height |-> 0, data |-> <<>>]
    /\ pc = "idle"
    /\ result = <<>>
    /\ worker = "none"
    /\ outcome = "none"
    /\ inflight = 0

\* no component is mounted: no getUserMedia call was made
camIdle ==
    /\ mounted = FALSE
    /\ videoRef = FALSE
    /\ srcObject = 0
    /\ gum = <<>>

\* the component is mounted and startCamera has run to its end: the stream
\* of its getUserMedia call plays in the video element
camStarted ==
    /\ mounted = TRUE
    /\ videoRef = TRUE
    /\ srcObject = 1
    /\ gum = <<[p |-> "done", tracks |-> "live"]>>

----------------------------------------------------------------------------
(* Texts *)

\* the texts the recognizer may return: up to MaxText characters
RECURSIVE TextsUpTo(_)
TextsUpTo(n) ==
    IF n = 0 THEN {<<>>}
    ELSE TextsUpTo(n - 1) \cup
         { Append(t, c) : t \in { u \in TextsUpTo(n - 1) : Len(u) = n - 1 },
                          c \in Chars }

RecognizedTexts == TextsUpTo(MaxText)

\* String.prototype.trim: blanks removed at both ends
RECURSIVE trimStart(_)
trimStart(t) ==
    IF t # <<>> /\ Head(t) = " " THEN trimStart(Tail(t)) ELSE t

RECURSIVE trimEnd(_)
trimEnd(t) ==
    IF t # <<>> /\ t[Len(t)] = " " THEN trimEnd(SubSeq(t, 1, Len(t) - 1))
    ELSE t

trim(t) == trimEnd(trimStart(t))

\* the messages shown in place of a text (each one symbol)
NoTextMsg == <<"No text found in image.">>
ErrorMsg == <<"Error extracting text. Please try again.">>
OcrFailedMsg == "OCR failed. Try again."

\* Math.round(m.progress * 100), m.progress in thousandths
roundProgress(p) == (p + 5) \div 10

\* the camera frames: width, height (0 while the video has no metadata) and
\* opaque pixels
Frames ==
    UNION { { [width |-> s[1], height |-> s[2], data |-> d] :
                d \in Bitmaps(FramePixels, s[1] * s[2]) } : s \in Shapes }

----------------------------------------------------------------------------
(* Spec: the mounted component *)

normIdle ==
    /\ nKind = "luma"
    /\ nContrast = Contrast10
    /\ nThreshold = Threshold
    /\ nWidth = 0
    /\ nHeight = 0
    /\ nSrc = <<>>
    /\ nData = <<>>
    /\ nFirst = <<>>
    /\ nCalls = 0
    /\ nStatus = "ready"
    /\ wData = <<>>
    /\ wPending = {}

Init ==
    /\ variant \in {"ocr", "plain", "worker"}
    /\ ProgIdle
    /\ camStarted
    /\ normIdle

\* try { ... } finally { setIsProcessing(false); setProgress(0) }
\* (runOCR: finally { setLoading(false) }; it has no progress state)
finallyBlock ==
    /\ isProcessing' = FALSE
    /\ progress' = 0
    /\ pc' = "idle"
    /\ inflight' = inflight - 1

\* (variant for comparison) the flag and the progress are reset on the
\* success path only: the catch block is not followed by a finally block
catchBlockNoFinally ==
    /\ text' = ErrorMsg
    /\ outcome' = "threw"
    /\ pc' = "idle"
    /\ inflight' = inflight - 1
    /\ UNCHANGED <<isProcessing, progress>>

\* catch (error) { setExtractedText("Error extracting text. ...") } finally
catchBlock ==
    /\ text' = ErrorMsg
    /\ outcome' = "threw"
    /\ finallyBlock

\* (variant for comparison) the trimmed text is shown
shownTextTrimmed(t) == IF trim(t) # <<>> THEN trim(t) ELSE NoTextMsg

\* if (result.data.text.trim()) setExtractedText(result.data.text)
\* else setExtractedText("No text found in image.")
shownText(t) == IF trim(t) # <<>> THEN t ELSE NoTextMsg

\* runOCR / extractText up to the first await
startExtraction(firstAwait) ==
    /\ isProcessing' = TRUE
    /\ text' = <<>>
    /\ progress' = 0
    /\ pc' = firstAwait
    /\ result' = <<>>
    /\ outcome' = "running"
    /\ inflight' = inflight + 1

\* (variant for comparison) runOCR begins with setError(null)
TakePhotoOcrResetsError(f) ==
    /\ variant = "ocr"
    /\ ~isProcessing
    /\ IF getImageDataThrows(f.width, f.height)
       THEN /\ canvas' = f
            /\ UNCHANGED <<text, isProcessing, progress, pc, result,
                           outcome, inflight, error>>
       ELSE /\ canvas' = [f EXCEPT !.data = preprocessImage(variant, f.data)]
            /\ startExtraction("recognize")
            /\ error' = Null
    /\ UNCHANGED <<variant, image, worker>>
    /\ UNCHANGED <<camVars, normVars>>

\* "ocr": the Capture & Scan button (disabled while loading): takePhoto,
\* preprocessImage, runOCR up to await Tesseract.recognize
TakePhotoOcr(f) ==
    /\ variant = "ocr"
    /\ ~isProcessing
    /\ IF getImageDataThrows(f.width, f.height)
       THEN /\ canvas' = f
            /\ UNCHANGED <<text, isProcessing, progress, pc, result,
                           outcome, inflight>>
       ELSE /\ canvas' = [f EXCEPT !.data = preprocessImage(variant, f.data)]
            /\ startExtraction("recognize")
    /\ UNCHANGED <<variant, image, error, worker>>
    /\ UNCHANGED <<camVars, normVars>>

\* "plain": the Capture button (rendered while no image is held): takePhoto,
\* extractText up to await Tesseract.recognize
TakePhotoPlain(f) ==
    /\ variant = "plain"
    /\ image = Null
    /\ canvas' = f
    /\ image' = "captured"
    /\ startExtraction("recognize")
    /\ UNCHANGED <<variant, error, worker>>
    /\ UNCHANGED <<camVars, normVars>>

\* "worker": the Capture button (rendered while no image is held): takePhoto,
\* preprocessImage, extractText up to await Tesseract.createWorker
TakePhotoWorker(f) ==
    /\ variant = "worker"
    /\ image = Null
    /\ image' = "captured"
    /\ IF getImageDataThrows(f.width, f.height)
       THEN /\ canvas' = f
            /\ UNCHANGED <<text, isProcessing, progress, pc, result,
                           outcome, inflight>>
       ELSE /\ canvas' = [f EXCEPT !.data = preprocessImage(variant, f.data)]
            /\ startExtraction("createWorker")
    /\ UNCHANGED <<variant, error, worker>>
    /\ UNCHANGED <<camVars, normVars>>

\* logger: if (m.status === 'recognizing text') setProgress(Math.round(...))
Logger(p) ==
    /\ variant \in {"plain", "worker"}
    /\ pc = "recognize"
    /\ progress' = roundProgress(p)
    /\ UNCHANGED <<variant, image, text, isProcessing, error, canvas, pc,
                   result, worker, outcome, inflight>>
    /\ UNCHANGED <<camVars, normVars>>

\* await Tesseract.createWorker(...) resolves
CreateWorkerResolve ==
    /\ pc = "createWorker"
    /\ worker' = "alive"
    /\ pc' = "setParameters"
    /\ UNCHANGED <<variant, image, text, isProcessing, progress, error,
                   canvas, result, outcome, inflight>>
    /\ UNCHANGED <<camVars, normVars>>

\* await Tesseract.createWorker(...) rejects
CreateWorkerReject ==
    /\ pc = "createWorker"
    /\ catchBlock
    /\ UNCHANGED <<variant, image, error, canvas, result, worker>>
    /\ UNCHANGED <<camVars, normVars>>

\* await worker.setParameters(...) resolves
SetParametersResolve ==
    /\ pc = "setParameters"
    /\ pc' = "recognize"
    /\ UNCHANGED <<variant, image, text, isProcessing, progress, error,
                   canvas, result, worker, outcome, inflight>>
    /\ UNCHANGED <<camVars, normVars>>

\* await worker.setParameters(...) rejects: the worker is left running
SetParametersReject ==
    /\ pc = "setParameters"
    /\ catchBlock
    /\ UNCHANGED <<variant, image, error, canvas, result, worker>>
    /\ UNCHANGED <<camVars, normVars>>

\* await Tesseract.recognize / worker.recognize resolves with text t
RecognizeResolve(t) ==
    /\ pc = "recognize"
    /\ IF variant = "ocr"
       THEN /\ result' = t
            /\ text' = t
            /\ isProcessing' = FALSE
            /\ pc' = "idle"
            /\ outcome' = "resolved"
            /\ inflight' = inflight - 1
            /\ UNCHANGED progress
       ELSE IF variant = "plain"
       THEN /\ result' = t
            /\ text' = shownText(t)
            /\ outcome' = "resolved"
            /\ finallyBlock
       ELSE /\ result' = t
            /\ pc' = "terminate"
            /\ UNCHANGED <<text, isProcessing, progress, outcome, inflight>>
    /\ UNCHANGED <<variant, image, error, canvas, worker>>
    /\ UNCHANGED <<camVars, normVars>>

\* await Tesseract.recognize / worker.recognize rejects
RecognizeReject ==
    /\ pc = "recognize"
    /\ IF variant = "ocr"
       THEN /\ error' = OcrFailedMsg
            /\ isProcessing' = FALSE
            /\ pc' = "idle"
            /\ outcome' = "threw"
            /\ inflight' = inflight - 1
            /\ UNCHANGED <<text, progress>>
       ELSE /\ catchBlock
            /\ UNCHANGED error
    /\ UNCHANGED <<variant, image, canvas, result, worker>>
    /\ UNCHANGED <<camVars, normVars>>

\* await worker.terminate() resolves; the text is set; finally
TerminateResolve ==
    /\ pc = "terminate"
    /\ worker' = "terminated"
    /\ text' = shownText(result)
    /\ outcome' = "resolved"
    /\ finallyBlock
    /\ UNCHANGED <<variant, image, error, canvas, result>>
    /\ UNCHANGED <<camVars, normVars>>

\* (variant for comparison) the Retake button is enabled while processing
RetakePhotoWhileProcessing ==
    /\ variant \in {"plain", "worker"}
    /\ image # Null
    /\ image' = Null
    /\ text' = <<>>
    /\ progress' = 0
    /\ UNCHANGED <<variant, isProcessing, error, canvas, pc, result, worker,
                   outcome, inflight>>
    /\ UNCHANGED <<camVars, normVars>>

\* the Retake button (rendered while an image is held, disabled while
\* processing)
RetakePhoto ==
    /\ variant \in {"plain", "worker"}
    /\ image # Null
    /\ ~isProcessing
    /\ image' = Null
    /\ text' = <<>>
    /\ progress' = 0
    /\ UNCHANGED <<variant, isProcessing, error, canvas, pc, result, worker,
                   outcome, inflight>>
    /\ UNCHANGED <<camVars, normVars>>

\* a pending promise of the recognizer settles
Settle ==
    \/ CreateWorkerResolve
    \/ CreateWorkerReject
    \/ SetParametersResolve
    \/ SetParametersReject
    \/ \E t \in RecognizedTexts : RecognizeResolve(t)
    \/ RecognizeReject
    \/ TerminateResolve

Next ==
    \/ \E f \in Frames : TakePhotoOcr(f)
    \/ \E f \in Frames : TakePhotoPlain(f)
    \/ \E f \in Frames : TakePhotoWorker(f)
    \/ \E p \in ProgressReports : Logger(p)
    \/ CreateWorkerResolve
    \/ CreateWorkerReject
    \/ SetParametersResolve
    \/ SetParametersReject
    \/ \E t \in RecognizedTexts : RecognizeResolve(t)
    \/ RecognizeReject
    \/ TerminateResolve
    \/ RetakePhoto

Spec == Init /\ [][Next]_vars

\* the awaited promises settle (the assumption of the claims on completion)
FairSpec == Spec /\ WF_vars(Settle)

----------------------------------------------------------------------------
(* CamSpec: the component from its mounting on.  An entry of gum is one    *)
(* getUserMedia call: p is the await startCamera is suspended at ("gum",   *)
(* "play") or "done"; tracks is "none" until the call resolves with a      *)
(* stream, then "live" until the tracks of that stream are stopped.        *)

\* startCamera awaits video.play() and its catch block sets the error state
\* ("ocr", "capture"); in "plain" and "worker" it does neither
playsAndSetsError(v) == v \in {"ocr", "capture"}

\* stopCamera ends with video.srcObject = null ("plain", "worker")
clearsSrcObject(v) == v \in {"plain", "worker"}

\* the message of the catch block of startCamera
CameraDeniedMsg == "Camera access denied."
CameraUnableMsg == "Unable to access camera. Please allow camera permissions."
cameraMsg(v) == IF v = "ocr" THEN CameraDeniedMsg ELSE CameraUnableMsg

\* setError in the catch block of startCamera: a state update of a
\* component that is no longer mounted is dropped
cameraError(v, m, e) == IF playsAndSetsError(v) /\ m THEN cameraMsg(v) ELSE e

\* startCamera up to await getUserMedia: one more call is pending
startCamera(g) == Append(g, [p |-> "gum", tracks |-> "none"])

\* stopCamera: the tracks of the stream in videoRef.current?.srcObject are
\* stopped; nothing is stopped when the ref or srcObject is null
stopCamera(g, ref, s) ==
    IF ref /\ s # 0 THEN [g EXCEPT ![s].tracks = "stopped"] ELSE g

\* createRoot(...).render(<StrictMode><CameraCapture/></StrictMode>): the
\* video element is committed and the effect runs startCamera.  In a
\* development build (strict) StrictMode then runs the cleanup and the effect
\* once more, in the same task: stopCamera, startCamera.
Mount(strict) ==
    /\ ~mounted
    /\ gum = <<>>
    /\ mounted' = TRUE
    /\ videoRef' = TRUE
    /\ gum' = IF strict
              THEN startCamera(stopCamera(startCamera(gum), TRUE, srcObject))
              ELSE startCamera(gum)
    /\ srcObject' = IF strict /\ clearsSrcObject(variant) THEN 0
                    ELSE srcObject
    /\ UNCHANGED <<progVars, normVars>>

\* the component is unmounted: the cleanup of the effect runs stopCamera.
\* React detaches videoRef from the removed element; whether it has done so
\* when the cleanup runs (attached = FALSE) depends on the version of React,
\* which the sources do not fix.
Unmount(attached) ==
    /\ mounted
    /\ mounted' = FALSE
    /\ videoRef' = FALSE
    /\ gum' = stopCamera(gum, attached, srcObject)
    /\ srcObject' = IF attached /\ clearsSrcObject(variant) THEN 0
                    ELSE srcObject
    /\ UNCHANGED <<progVars, normVars>>

\* await getUserMedia resolves with a stream: if (videoRef.current)
\* video.srcObject = stream (the stream that was there is not stopped), and
\* in "ocr" and "capture" await video.play()
GetUserMediaResolve(i) ==
    /\ gum[i].p = "gum"
    /\ IF videoRef
       THEN /\ srcObject' = i
            /\ gum' = [gum EXCEPT ![i] =
                         [p |-> IF playsAndSetsError(variant) THEN "play"
                                ELSE "done",
                          tracks |-> "live"]]
       ELSE /\ gum' = [gum EXCEPT ![i] = [p |-> "done", tracks |-> "live"]]
            /\ UNCHANGED srcObject
    /\ UNCHANGED <<mounted, videoRef>>
    /\ UNCHANGED <<progVars, normVars>>

\* await getUserMedia rejects: the catch block
GetUserMediaReject(i) ==
    /\ gum[i].p = "gum"
    /\ gum' = [gum EXCEPT ![i].p = "done"]
    /\ error' = cameraError(variant, mounted, error)
    /\ UNCHANGED <<variant, image, text, isProcessing, progress, canvas, pc,
                   result, worker, outcome, inflight>>
    /\ UNCHANGED <<mounted, videoRef, srcObject>>
    /\ UNCHANGED normVars

\* await video.play() resolves: startCamera returns
PlayResolve(i) ==
    /\ gum[i].p = "play"
    /\ gum' = [gum EXCEPT ![i].p = "done"]
    /\ UNCHANGED <<mounted, videoRef, srcObject>>
    /\ UNCHANGED <<progVars, normVars>>

\* await video.play() rejects (playback not allowed, or interrupted by a
\* new srcObject): the catch block; the stream stays in video.srcObject
PlayReject(i) ==
    /\ gum[i].p = "play"
    /\ gum' = [gum EXCEPT ![i].p = "done"]
    /\ error' = cameraError(variant, mounted, error)
    /\ UNCHANGED <<variant, image, text, isProcessing, progress, canvas, pc,
                   result, worker, outcome, inflight>>
    /\ UNCHANGED <<mounted, videoRef, srcObject>>
    /\ UNCHANGED normVars

\* "capture": the Capture button: takePhoto
TakePhotoCapture(f) ==
    /\ variant = "capture"
    /\ videoRef
    /\ canvas' = f
    /\ image' = "captured"
    /\ UNCHANGED <<variant, text, isProcessing, progress, error, pc, result,
                   worker, outcome, inflight>>
    /\ UNCHANGED <<camVars, normVars>>

\* what drawImage(video) finds: frames of at most one pixel once a stream
\* is in video.srcObject, and before that a video of width and height 0
videoFrames ==
    IF srcObject # 0 THEN { f \in Frames : f.width * f.height <= 1 }
    ELSE { [width |-> 0, height |-> 0, data |-> <<>>] }

CamInit ==
    /\ variant \in {"ocr", "plain", "worker", "capture"}
    /\ ProgIdle
    /\ camIdle
    /\ normIdle

\* the handlers and continuations of Spec run while the component is
\* mounted
CamNext ==
    \/ \E strict \in BOOLEAN : Mount(strict)
    \/ \E attached \in BOOLEAN : Unmount(attached)
    \/ \E i \in DOMAIN gum : GetUserMediaResolve(i)
    \/ \E i \in DOMAIN gum : GetUserMediaReject(i)
    \/ \E i \in DOMAIN gum : PlayResolve(i)
    \/ \E i \in DOMAIN gum : PlayReject(i)
    \/ mounted /\ \E f \in videoFrames : TakePhotoCapture(f)
    \/ mounted /\ \E f \in videoFrames : TakePhotoOcr(f)
    \/ mounted /\ \E f \in videoFrames : TakePhotoPlain(f)
    \/ mounted /\ \E f \in videoFrames : TakePhotoWorker(f)
    \/ mounted /\ \E p \in ProgressReports : Logger(p)
    \/ mounted /\ CreateWorkerResolve
    \/ mounted /\ CreateWorkerReject
    \/ mounted /\ SetParametersResolve
    \/ mounted /\ SetParametersReject
    \/ mounted /\ \E t \in RecognizedTexts : RecognizeResolve(t)
    \/ mounted /\ RecognizeReject
    \/ mounted /\ TerminateResolve
    \/ mounted /\ RetakePhoto

CamSpec == CamInit /\ [][CamNext]_vars

----------------------------------------------------------------------------
(* NormSpec: calls of the transform on one bitmap under one configuration *)

NormInit ==
    /\ variant = "none"
    /\ ProgIdle
    /\ camIdle
    /\ nKind \in {"luma", "avg"}
    /\ nContrast \in (IF nKind = "luma" THEN Contrasts ELSE {Contrast10})
    /\ nThreshold \in Thresholds
    /\ \E s \in Shapes :
          /\ nWidth = s[1]
          /\ nHeight = s[2]
          /\ nSrc \in Bitmaps(Pixels, s[1] * s[2])
    /\ nData = nSrc
    /\ nFirst = nSrc
    /\ nCalls = 0
    /\ nStatus = "ready"
    /\ wData = nSrc
    /\ wPending = {}

\* One call on the bitmap as the calls before left it: getImageData, the
\* loop, putImageData.  Nothing in the function inspects contrast, threshold
\* or the dimensions; only getImageData rejects an empty bitmap.
Normalize ==
    /\ nStatus # "threw"
    /\ nCalls < MaxCalls
    /\ IF getImageDataThrows(nWidth, nHeight)
       THEN /\ nStatus' = "threw"
            /\ UNCHANGED <<nData, nFirst, nCalls>>
       ELSE /\ nData' = normalize(nKind, nData, nContrast, nThreshold)
            /\ nFirst' = IF nCalls = 0 THEN nData' ELSE nFirst
            /\ nCalls' = nCalls + 1
            /\ nStatus' = "done"
    /\ UNCHANGED <<nKind, nContrast, nThreshold, nWidth, nHeight, nSrc,
                   wData, wPending>>
    /\ UNCHANGED <<progVars, camVars>>

NormNext == Normalize

NormSpec == NormInit /\ [][NormNext]_vars

----------------------------------------------------------------------------
(* ParSpec: the loop body applied to the pixels of one bitmap in any order, *)
(* as workers owning disjoint sets of pixels would, with the constants of  *)
(* the code                                                                *)

ParInit ==
    /\ variant = "none"
    /\ ProgIdle
    /\ camIdle
    /\ nKind \in {"luma", "avg"}
    /\ nContrast = Contrast10
    /\ nThreshold = Threshold
    /\ \E s \in Shapes :
          /\ nWidth = s[1]
          /\ nHeight = s[2]
          /\ nSrc \in Bitmaps(Pixels, s[1] * s[2])
    /\ nData = nSrc
    /\ nFirst = nSrc
    /\ nCalls = 0
    /\ nStatus = "ready"
    /\ wData = nSrc
    /\ wPending = pixelStarts(nSrc)

WorkerStep(i) ==
    /\ i \in wPending
    /\ wData' = pixelStep(nKind, wData, i, nContrast, nThreshold)
    /\ wPending' = wPending \ {i}
    /\ UNCHANGED <<nKind, nContrast, nThreshold, nWidth, nHeight, nSrc,
                   nData, nFirst, nCalls, nStatus>>
    /\ UNCHANGED <<progVars, camVars>>

ParNext == \E i \in wPending : WorkerStep(i)

ParSpec == ParInit /\ [][ParNext]_vars

----------------------------------------------------------------------------
(* The contract of normalize, as stated *)

\* input constraints: width and height >= 1
ValidBitmap == nWidth >= 1 /\ nHeight >= 1

\* input constraints: contrast > 0, contrast never 259, threshold in [0,255]
ValidConfig ==
    /\ nContrast > 0
    /\ nContrast # 2590
    /\ nThreshold \in 0 .. 255

\* contrast strictly between 0 and 259: factor is finite and positive
ContrastBelow259 == nContrast > 0 /\ nContrast < 2590

\* the pixel of a flat array that starts at index i
rgbAt(data, i) == <<data[i], data[i + 1], data[i + 2]>>

\* enhanced > threshold, for
\*   gray = 0.299 R + 0.587 G + 0.114 B
\*   factor = (259 (contrast + 255)) / (255 (259 - contrast))
\*   enhanced = factor (gray - 128) + 128
\* (contrast # 259), cross-multiplied by the divisor of factor.  The values
\* are those of the doubles: they decide as the exact values do, except that
\* a gray that evaluates one ulp under 128 gives, under a negative factor,
\* an enhanced above 128.
StatedAbove(px, c10, t) ==
    LET x   == (299 * px[1] + 587 * px[2] + 114 * px[3]) - 128000
        num == 259 * (c10 + 2550)
        den == 255 * (2590 - c10)
        hi  == mulHi(num, x)
        lo  == mulLo(num, x)
    IN  IF den > 0
        THEN hi > (t - 128) * den \/ (hi = (t - 128) * den /\ lo > 0)
        ELSE \/ hi < (t - 128) * den
             \/ x = 0 /\ t = 128 /\ num > 0 /\ px \in GrayRoundsBelow

\* 255 exactly when enhanced > threshold, 0 otherwise
StatedValue(px, c10, t) == IF StatedAbove(px, c10, t) THEN 255 ELSE 0

\* CameraCapture.tsx states its own rule: the average of the three channels
\* against the threshold
StatedAvgValue(px, t) == IF px[1] + px[2] + px[3] > 3 * t THEN 255 ELSE 0

\* every pixel of data is <<v, v, v>>
AllPixels(data, v) ==
    \A i \in pixelStarts(data) : rgbAt(data, i) = <<v, v, v>>

----------------------------------------------------------------------------
(* C1 *)

\* C1: after a call on a bitmap of at least one pixel, every pixel of the
\* output has R = G = B and that value is 0 or 255, whatever the input and
\* the configuration.
C1_BiLevel ==
    (nStatus = "done" /\ ValidBitmap) =>
        \A i \in pixelStarts(nData) :
            /\ nData[i] = nData[i + 1]
            /\ nData[i + 1] = nData[i + 2]
            /\ nData[i] \in {0, 255}

\* a two-pixel bitmap with a coloured pixel and a mid-tone pixel was normalized
C1_Witness ==
    /\ nStatus = "done"
    /\ Len(nSrc) = 8
    /\ rgbAt(nSrc, 1) = <<255, 0, 255>>
    /\ rgbAt(nSrc, 5) = <<129, 128, 128>>

----------------------------------------------------------------------------
(* C2 *)

\* C2 as stated: under every valid configuration and for both routines, the
\* first call writes 255 to a pixel exactly when enhanced > threshold.
C2_EveryRoutine ==
    (nStatus = "done" /\ nCalls = 1 /\ ValidBitmap /\ ValidConfig) =>
        \A i \in pixelStarts(nSrc) :
            nData[i] = StatedValue(rgbAt(nSrc, i), nContrast, nThreshold)

\* C2 amended: the routine of App.tsx writes 255 to a pixel exactly when
\* enhanced > threshold (0 when they are equal), whatever the contrast
\* (other than 259) and the threshold, and maps (200,200,200) to 255 and
\* (50,50,50) to 0 under contrast 1.5 and threshold 128; the routine of
\* CameraCapture.tsx writes 255 exactly when (R + G + B) / 3 > threshold.
C2_PerRoutine ==
    (nStatus = "done" /\ nCalls = 1 /\ ValidBitmap) =>
        \A i \in pixelStarts(nSrc) :
            /\ (nKind = "luma" /\ nContrast # 2590) =>
                  nData[i] = StatedValue(rgbAt(nSrc, i), nContrast, nThreshold)
            /\ (nKind = "luma" /\ nContrast = 15 /\ nThreshold = 128) =>
                  /\ rgbAt(nSrc, i) = <<200, 200, 200>> => nData[i] = 255
                  /\ rgbAt(nSrc, i) = <<50, 50, 50>> => nData[i] = 0
                  /\ gray1000(nSrc[i], nSrc[i + 1], nSrc[i + 2]) = 128000
                        => nData[i] = 0
            /\ nKind = "avg" =>
                  nData[i] = StatedAvgValue(rgbAt(nSrc, i), nThreshold)

\* the worked example: [(200,200,200), (50,50,50)] under contrast 1.5 and
\* threshold 128 came out as [255, 0]
C2_Witness ==
    /\ nStatus = "done" /\ nCalls = 1
    /\ nKind = "luma" /\ nContrast = 15 /\ nThreshold = 128
    /\ nWidth = 2 /\ nHeight = 1
    /\ rgbAt(nSrc, 1) = <<200, 200, 200>>
    /\ rgbAt(nSrc, 5) = <<50, 50, 50>>
    /\ rgbAt(nData, 1) = <<255, 255, 255>>
    /\ rgbAt(nData, 5) = <<0, 0, 0>>

----------------------------------------------------------------------------
(* C3 *)

----------------------------------------------------------------------------
(* C4 *)

----------------------------------------------------------------------------
(* C5 *)

\* an all-white input of at least one pixel
WhiteInput == ValidBitmap /\ AllPixels(nSrc, 255)

----------------------------------------------------------------------------
(* C6 *)

\* an all-black input of at least one pixel
BlackInput == ValidBitmap /\ AllPixels(nSrc, 0)

----------------------------------------------------------------------------
(* C7 *)

\* C7: a call keeps the number of pixels (width * height) and the alpha of
\* every pixel; only the R, G and B entries are written.
C7_AlphaAndSizeKept ==
    nStatus = "done" =>
        /\ Len(nData) = 4 * nWidth * nHeight
        /\ Len(nData) = Len(nSrc)
        /\ \A i \in pixelStarts(nSrc) : nData[i + 3] = nSrc[i + 3]

\* a bitmap with a transparent and a half-transparent pixel was normalized
\* and its colours changed
C7_Witness ==
    /\ nStatus = "done"
    /\ Len(nSrc) = 8
    /\ nSrc[4] = 0 /\ nSrc[8] = 128
    /\ rgbAt(nData, 1) # rgbAt(nSrc, 1)
    /\ rgbAt(nData, 5) # rgbAt(nSrc, 5)

----------------------------------------------------------------------------
(* C8 *)

\* C8: whatever the order in which the pixels are processed, a processed
\* pixel holds what the left-to-right loop gives it and a pixel not yet
\* processed holds its input; when all are processed the bitmap is the one
\* the loop produces.
C8_OrderIndependent ==
    LET seq == normalize(nKind, nSrc, nContrast, nThreshold)
    IN  /\ Len(wData) = Len(nSrc)
        /\ \A i \in pixelStarts(nSrc) :
              \A k \in 0 .. 3 :
                 wData[i + k] = IF i \in wPending THEN nSrc[i + k]
                                ELSE seq[i + k]
        /\ wPending = {} => wData = seq

\* the second pixel was processed before the first and was changed by it
C8_Witness ==
    /\ Len(nSrc) = 8
    /\ wPending = {1}
    /\ rgbAt(wData, 5) # rgbAt(nSrc, 5)

----------------------------------------------------------------------------
(* C10 *)

\* an extraction starts: the handler reaches its first await
ExtractionStarts == pc = "idle" /\ pc' # "idle"

\* an extraction completes: its last continuation has run
ExtractionCompletes == pc # "idle" /\ pc' = "idle"

\* C10: an extraction that starts sets the processing flag and sets progress
\* to 0; while it runs the flag stays set and progress stays within 0..100;
\* when it completes, by the recognizer resolving or rejecting, the flag is
\* cleared and progress is 0; and, the promises of the recognizer settling,
\* every extraction completes.
C10_ProcessingEnds ==
    /\ [][ExtractionStarts => (isProcessing' /\ progress' = 0)]_vars
    /\ [][ExtractionCompletes => (~isProcessing' /\ progress' = 0)]_vars
    /\ [](pc # "idle" => isProcessing)
    /\ [](isProcessing => progress \in 0 .. 100)
    /\ (isProcessing ~> (~isProcessing /\ progress = 0))

\* an extraction whose recognizer rejected has completed
C10_Witness ==
    /\ variant = "worker"
    /\ text = ErrorMsg
    /\ ~isProcessing
    /\ progress = 0
    /\ pc = "idle"

----------------------------------------------------------------------------
(* C11 *)

\* the components that recognize through extractText
HasExtractText == variant \in {"plain", "worker"}

\* C11: when extractText completes, the text shown is not empty: it is the
\* recognized text, unchanged, if that text is not blank after trimming, the
\* message "No text found in image." if it is blank, and the message "Error
\* extracting text. Please try again." if a step of the recognition threw;
\* and the text is empty all the time the extraction is in progress.
C11_TextAfterExtraction ==
    /\ [][(HasExtractText /\ ExtractionCompletes) =>
            /\ text' # <<>>
            /\ outcome' \in {"resolved", "threw"}
            /\ (outcome' = "resolved" /\ trim(result') # <<>>)
                  => text' = result'
            /\ (outcome' = "resolved" /\ trim(result') = <<>>)
                  => text' = <<"No text found in image.">>
            /\ outcome' = "threw"
                  => text' = <<"Error extracting text. Please try again.">>
         ]_vars
    /\ []((HasExtractText /\ pc # "idle") => text = <<>>)

\* an extraction completed with a recognized text that starts with a blank:
\* the text is shown with its blank
C11_Witness ==
    /\ variant = "worker"
    /\ pc = "idle"
    /\ outcome = "resolved"
    /\ result = <<" ", "a">>
    /\ text = <<" ", "a">>

----------------------------------------------------------------------------
(* C12 *)

\* C12: under any sequence of Capture and Retake clicks at most one
\* recognition is in flight; while one is in flight the processing flag is
\* set, and the flag is set only while one is in flight; in the components
\* that hold an image, the image is held whenever the flag is set, so that
\* the image a recognition was started for is still held when its result is
\* written.
C12_OneRecognitionInFlight ==
    /\ inflight \in {0, 1}
    /\ (inflight = 1) = isProcessing
    /\ (inflight = 1) = (pc # "idle")
    /\ (HasExtractText /\ isProcessing) => image # Null

\* a second capture, after a Retake: its recognition is the only one in
\* flight (the worker of the first one was terminated)
C12_Witness ==
    /\ variant = "worker"
    /\ worker = "terminated"
    /\ pc = "createWorker"
    /\ inflight = 1
    /\ isProcessing
    /\ image # Null

----------------------------------------------------------------------------
(* C14 *)

\* C14: every worker that extractText creates is terminated by the time that
\* extraction completes, on the success path and on every failure path: when
\* no extraction is running, no worker is alive.
C14_WorkerTerminated == pc = "idle" => worker # "alive"

----------------------------------------------------------------------------
(* C13 *)

\* C13: once the cleanup of the component has run and every getUserMedia
\* call has settled, every stream that startCamera acquired has had its
\* tracks stopped.
C13_StreamsStopped ==
    (/\ ~mounted
     /\ gum # <<>>
     /\ \A i \in DOMAIN gum : gum[i].p = "done")
    => \A i \in DOMAIN gum : gum[i].tracks # "live"

----------------------------------------------------------------------------
(* C15 *)

\* C15: in the components that keep an error message in state, no operation
\* resets the error to null: once a camera failure or a recognition failure
\* has set it, it stays set (to one of the messages) whatever captures
\* follow, scans that succeed included.
C15_ErrorNeverReset == [][error # Null => error' # Null]_vars

\* a scan failed and a later scan succeeded: its text and the error of the
\* earlier scan are both in the state that is rendered
C15_Witness ==
    /\ variant = "ocr"
    /\ mounted
    /\ error = "OCR failed. Try again."
    /\ outcome = "resolved"
    /\ text = <<"a">>
    /\ ~isProcessing

====
